---- MODULE Spec2Model ----
(***************************************************************************)
(* A model of the chat client's real-time synchronisation core:            *)
(*   - the chat slice reducers (src/src/store/slices/chatSlice.ts),        *)
(*   - the auth slice (src/src/store/slices/authSlice.ts),                 *)
(*   - the SocketProvider bridge (src/src/contexts/SocketContex.tsx),      *)
(*   - the UI intents that reach them (ChatWindow.tsx, ChatSidebar.tsx).   *)
(*                                                                         *)
(* Strings of the program are modelled by values of one shape per kind so  *)
(* that they can be compared: a timestamp is a record [fmt, t] (the format *)
(* it is written in and the instant it denotes), a message identifier is a *)
(* triple <<prefix, fmt, n>>.                                              *)
(***************************************************************************)
EXTENDS Integers, Sequences, FiniteSets, TLC

\* ------------------------------------------------------------------ bounds
MaxClock == 1
MaxSends == 1
MaxSrv == 1
MaxLen == 2
MaxSock == 2
MaxDays == 2
MaxUnread == 3

\* ------------------------------------------------------------ value spaces
Users == {"u1", "u2", "u3"}

\* `undefined` / `null` where the program expects a string.
Undefined == "undefined"

\* The two spellings of an instant that reach the client: ISO-8601 text
\* (Date.prototype.toISOString, a backend's JSON date) and decimal epoch
\* milliseconds (Date.now() in a template string, a backend's numeric date).
Formats == {"iso", "ms"}

Stamp(f, n) == [fmt |-> f, t |-> n]

\* new Date().toISOString()
toISOString(n) == Stamp("iso", n)

\* new Date(x).getTime(): both spellings denote the instant they carry.
getTime(ts) == ts.t

\* `temp_${x}` for a number x (Date.now()): the decimal spelling.
TempOfNow(n) == <<"temp_", "ms", n>>

\* `temp_${createdAt}` for a timestamp value as received: the text keeps the
\* spelling the value arrived in.
TempOfStamp(ts) == <<"temp_", ts.fmt, ts.t>>

\* A backend-assigned identifier.
ServerId(n) == <<"srv", "id", n>>

\* ------------------------------------------------------------ chat slice

\* initialState of the chat slice (the fields the modelled reducers use).
chatInitialState ==
  [ activeChatId |-> Undefined,
    chats |-> << >>,
    chatIds |-> << >>,
    messages |-> << >>,
    messageIds |-> << >>,
    isSendingMessage |-> FALSE,
    typingUsers |-> << >>,
    onlineUsers |-> << >> ]

\* obj[k] = v on a Record<string, T> modelled as a function on its keys.
Put(f, k, v) == [x \in (DOMAIN f) \cup {k} |-> IF x = k THEN v ELSE f[x]]

\* Array.prototype.findIndex over the chat list, 1-based; 0 stands for -1.
chatIndexOf(chats, receiverId) ==
  IF \E i \in 1..Len(chats) : chats[i].receiverId = receiverId
  THEN CHOOSE i \in 1..Len(chats) :
         /\ chats[i].receiverId = receiverId
         /\ \A j \in 1..(i - 1) : chats[j].receiverId # receiverId
  ELSE 0

\* Array.prototype.findIndex over a message list, 1-based; 0 stands for -1.
messageIndexOf(list, messageId) ==
  IF \E i \in 1..Len(list) : list[i]._id = messageId
  THEN CHOOSE i \in 1..Len(list) :
         /\ list[i]._id = messageId
         /\ \A j \in 1..(i - 1) : list[j]._id # messageId
  ELSE 0

\* chats.sort((a, b) => getTime(b.updatedAt) - getTime(a.updatedAt)):
\* a stable sort, newest first.  Insertion keeps equal keys in their order.
RECURSIVE InsertChat(_, _)
InsertChat(sorted, c) ==
  IF sorted = << >> THEN <<c>>
  ELSE IF getTime(Head(sorted).updatedAt) >= getTime(c.updatedAt)
       THEN <<Head(sorted)>> \o InsertChat(Tail(sorted), c)
       ELSE <<c>> \o sorted

RECURSIVE SortFrom(_, _, _)
SortFrom(s, i, acc) ==
  IF i > Len(s) THEN acc ELSE SortFrom(s, i + 1, InsertChat(acc, s[i]))

sortChats(s) == SortFrom(s, 1, << >>)

\* setActiveChat reducer.
setActiveChat(state, receiverId) ==
  LET chatIndex == chatIndexOf(state.chats, receiverId)
      chats1 == IF chatIndex >= 1
                THEN [state.chats EXCEPT ![chatIndex].unreadCount = 0]
                ELSE state.chats
  IN [state EXCEPT
        !.activeChatId = receiverId,
        !.chats = chats1,
        !.typingUsers = SelectSeq(state.typingUsers, LAMBDA u : u.userId = receiverId)]

\* The chat entry addMessage creates for a conversation it has not seen.
newChat(state, receiverId, message) ==
  [ id |-> receiverId,
    receiverId |-> receiverId,
    receiver |-> [_id |-> receiverId, firstName |-> "Unknown",
                  lastName |-> "User", email |-> ""],
    lastMessage |-> message,
    unreadCount |-> IF state.activeChatId = receiverId THEN 0 ELSE 1,
    updatedAt |-> message.createdAt ]

\* setMessages that keeps the entries already stored.
setMessagesAppend(state, receiverId, messages) ==
  [state EXCEPT
     !.messages = Put(@, receiverId,
                      (IF receiverId \in DOMAIN @ THEN @[receiverId] ELSE << >>)
                        \o messages),
     !.messageIds = Put(@, receiverId,
                        [n \in 1..Len(messages) |-> messages[n]._id])]

\* setMessages reducer.
setMessages(state, receiverId, messages) ==
  [state EXCEPT
     !.messages = Put(@, receiverId, messages),
     !.messageIds = Put(@, receiverId,
                        [n \in 1..Len(messages) |-> messages[n]._id])]

\* addMessage without the duplicate check.
addMessageNoDedup(state, receiverId, message) ==
  LET list == IF receiverId \in DOMAIN state.messages
              THEN state.messages[receiverId] ELSE << >>
      ids == IF receiverId \in DOMAIN state.messages
             THEN state.messageIds[receiverId] ELSE << >>
  IN [state EXCEPT
        !.messages = Put(state.messages, receiverId, Append(list, message)),
        !.messageIds = Put(state.messageIds, receiverId, Append(ids, message._id))]

\* addMessage that counts a message of the active conversation as unread.
addMessageCountsActive(state, receiverId, message) ==
  LET fresh == receiverId \notin DOMAIN state.messages
      list == IF fresh THEN << >> ELSE state.messages[receiverId]
      ids == IF fresh THEN << >> ELSE state.messageIds[receiverId]
      messageExists == \E i \in 1..Len(list) : list[i]._id = message._id
      chatIndex == chatIndexOf(state.chats, receiverId)
      chats1 ==
        IF chatIndex >= 1
        THEN [state.chats EXCEPT
                ![chatIndex].lastMessage = message,
                ![chatIndex].updatedAt = message.createdAt,
                ![chatIndex].unreadCount = @ + 1]
        ELSE <<[newChat(state, receiverId, message) EXCEPT !.unreadCount = 1]>>
               \o state.chats
      chatIds1 == IF chatIndex >= 1 THEN state.chatIds
                  ELSE <<receiverId>> \o state.chatIds
  IN IF messageExists THEN state
     ELSE [state EXCEPT
             !.messages = Put(state.messages, receiverId, Append(list, message)),
             !.messageIds = Put(state.messageIds, receiverId, Append(ids, message._id)),
             !.chats = sortChats(chats1),
             !.chatIds = chatIds1]

\* addMessage reducer.
addMessage(state, receiverId, message) ==
  LET fresh == receiverId \notin DOMAIN state.messages
      list == IF fresh THEN << >> ELSE state.messages[receiverId]
      ids == IF fresh THEN << >> ELSE state.messageIds[receiverId]
      messageExists == \E i \in 1..Len(list) : list[i]._id = message._id
      chatIndex == chatIndexOf(state.chats, receiverId)
      chats1 ==
        IF chatIndex >= 1
        THEN [state.chats EXCEPT
                ![chatIndex].lastMessage = message,
                ![chatIndex].updatedAt = message.createdAt,
                ![chatIndex].unreadCount =
                    IF state.activeChatId # receiverId THEN @ + 1 ELSE @]
        ELSE <<newChat(state, receiverId, message)>> \o state.chats
      chatIds1 == IF chatIndex >= 1 THEN state.chatIds
                  ELSE <<receiverId>> \o state.chatIds
  IN IF messageExists THEN state
     ELSE [state EXCEPT
             !.messages = Put(state.messages, receiverId, Append(list, message)),
             !.messageIds = Put(state.messageIds, receiverId, Append(ids, message._id)),
             !.chats = sortChats(chats1),
             !.chatIds = chatIds1]

\* { ...old, ...updates }: every field the update carries replaces the old one.
Spread(old, updates) ==
  [f \in (DOMAIN old) \cup (DOMAIN updates) |->
     IF f \in DOMAIN updates THEN updates[f] ELSE old[f]]

\* updateMessage that inserts the update when nothing matches.
updateMessageUpsert(state, receiverId, messageId, updates) ==
  LET has == receiverId \in DOMAIN state.messages
      list == IF has THEN state.messages[receiverId] ELSE << >>
      messageIndex == messageIndexOf(list, messageId)
  IN IF messageIndex >= 1
     THEN [state EXCEPT !.messages[receiverId][messageIndex] =
                           Spread(list[messageIndex], updates)]
     ELSE [state EXCEPT !.messages = Put(state.messages, receiverId,
                                         Append(list, updates))]

\* updateMessage reducer.
updateMessage(state, receiverId, messageId, updates) ==
  IF receiverId \in DOMAIN state.messages
  THEN LET list == state.messages[receiverId]
           messageIndex == messageIndexOf(list, messageId)
       IN IF messageIndex >= 1
          THEN [state EXCEPT !.messages[receiverId][messageIndex] =
                                Spread(list[messageIndex], updates)]
          ELSE state
  ELSE state

\* removeMessage reducer (messageStatus is not part of this state).
removeMessage(state, receiverId, messageId) ==
  IF receiverId \in DOMAIN state.messages
  THEN [state EXCEPT
          !.messages[receiverId] = SelectSeq(@, LAMBDA msg : msg._id # messageId),
          !.messageIds[receiverId] = SelectSeq(@, LAMBDA id : id # messageId)]
  ELSE state

\* incrementUnreadCount reducer.
incrementUnreadCount(state, receiverId) ==
  LET chatIndex == chatIndexOf(state.chats, receiverId)
  IN IF chatIndex >= 1 /\ state.activeChatId # receiverId
     THEN [state EXCEPT !.chats[chatIndex].unreadCount = @ + 1]
     ELSE state

\* handleNewSocketMessage reducer: addMessage under the sender's key, then
\* incrementUnreadCount unless the sender is the active conversation.
handleNewSocketMessage(state, message) ==
  LET chatPartner == message.senderId
      state1 == addMessage(state, chatPartner, message)
  IN IF state1.activeChatId # chatPartner
     THEN incrementUnreadCount(state1, chatPartner)
     ELSE state1

\* addTypingUser that pushes without removing the user's previous entry.
addTypingUserNoFilter(state, entry) ==
  [state EXCEPT !.typingUsers = Append(state.typingUsers, entry)]

\* addTypingUser reducer.
addTypingUser(state, entry) ==
  [state EXCEPT !.typingUsers =
     Append(SelectSeq(state.typingUsers, LAMBDA u : u.userId # entry.userId), entry)]

\* removeTypingUser that empties the list.
removeTypingUserAll(state, userId) ==
  [state EXCEPT !.typingUsers = << >>]

\* removeTypingUser reducer (the timer it clears is not part of this state).
removeTypingUser(state, userId) ==
  [state EXCEPT !.typingUsers =
     SelectSeq(state.typingUsers, LAMBDA u : u.userId # userId)]

\* setOnlineUsers that keeps the identifiers already online.
setOnlineUsersMerge(state, ids) ==
  [state EXCEPT !.onlineUsers = @ \o ids]

\* setOnlineUsers reducer.
setOnlineUsers(state, ids) ==
  [state EXCEPT !.onlineUsers = ids]

\* addOnlineUser that pushes without looking.
addOnlineUserPush(state, userId) ==
  [state EXCEPT !.onlineUsers = Append(@, userId)]

\* addOnlineUser reducer.
addOnlineUser(state, userId) ==
  IF \E k \in 1..Len(state.onlineUsers) : state.onlineUsers[k] = userId
  THEN state
  ELSE [state EXCEPT !.onlineUsers = Append(@, userId)]

\* removeOnlineUser reducer.
removeOnlineUser(state, userId) ==
  [state EXCEPT !.onlineUsers = SelectSeq(@, LAMBDA id : id # userId)]

\* ------------------------------------------------------------- auth slice

\* The bearer token the backend issues to a user.
TokenOf(u) ==
  CASE u = "u1" -> "jwt-u1"
    [] u = "u2" -> "jwt-u2"
    [] u = "u3" -> "jwt-u3"

\* The user a bearer token authenticates.
OwnerOf(token) == CHOOSE u \in Users : TokenOf(u) = token

\* initialState of the auth slice, read from localStorage at process start.
authInitialState(stored) ==
  [user |-> Undefined, token |-> stored, isAuthenticated |-> stored # Undefined]

\* loginSuccess reducer (its localStorage.setItem is in the action).
loginSuccess(state, user, token) ==
  [state EXCEPT !.user = user, !.token = token, !.isAuthenticated = TRUE]

\* logout that clears the user alone.
logoutKeepsToken(state) ==
  [state EXCEPT !.user = Undefined]

\* logout reducer (its localStorage.removeItem is in the action).
logout(state) ==
  [state EXCEPT !.user = Undefined, !.token = Undefined,
                !.isAuthenticated = FALSE]

\* signupSuccess reducer: the token and localStorage are left as they are.
signupSuccess(state, user) ==
  [state EXCEPT !.user = user, !.isAuthenticated = FALSE]

\* setCredentials reducer, with the token localStorage holds when it runs:
\* payload.token || localStorage.getItem('token') || null.
setCredentials(state, user, token, stored) ==
  [state EXCEPT !.user = user,
                !.token = IF token # Undefined THEN token ELSE stored,
                !.isAuthenticated = TRUE]

\* setUserFromStorage reducer.
setUserFromStorage(state, user) ==
  [state EXCEPT !.user = user, !.isAuthenticated = (state.token # Undefined)]

\* clearAuth reducer: localStorage is left as it is.
clearAuth(state) ==
  [state EXCEPT !.user = Undefined, !.token = Undefined,
                !.isAuthenticated = FALSE]

\* ------------------------------------------------------------- the bridge

\* newPrivateMessage handler: the key it stores the message under.
chatPartnerId(currentUserId, newMessage) ==
  IF newMessage.senderId = currentUserId
  THEN newMessage.receiverId ELSE newMessage.senderId

\* sendMessage with the transport guard left out.
transportReadyAlways(ref, connected) == TRUE

\* sendMessage: the negation of `!socketRef.current || !isConnected`.
transportReady(ref, connected) == ref # 0 /\ connected

\* String.prototype.trim on the composer's text.
trim(message) == IF message = " " THEN "" ELSE message

\* handleSendMessage with the check for content left out.
canSendAnyContent(message, selectedFile, activeChatId, isSendingMessage) ==
  ~(activeChatId = Undefined \/ isSendingMessage)

\* handleSendMessage: the negation of its early return,
\* (!message.trim() && !selectedFile) || !activeChatId || isSendingMessage.
canSend(message, selectedFile, activeChatId, isSendingMessage) ==
  ~((trim(message) = "" /\ ~selectedFile) \/ activeChatId = Undefined
      \/ isSendingMessage)

\* convertToBase64(selectedFile), or null without a file.
imageOf(selectedFile) == IF selectedFile THEN "data:image" ELSE Undefined

\* sendMessage: the placeholder it synthesizes.  The clock is read once: the
\* identifier carries Date.now() as a number, createdAt the ISO text.
optimisticMessage(currentUserId, data, n) ==
  [ _id |-> TempOfNow(n),
    senderId |-> IF currentUserId = Undefined THEN "" ELSE currentUserId,
    receiverId |-> data.receiverId,
    text |-> data.text,
    image |-> data.image,
    createdAt |-> toISOString(n),
    updatedAt |-> toISOString(n) ]

\* ------------------------------------------------------------------ state

VARIABLES
  chat,              \* the chat slice of the store
  auth,              \* the auth slice of the store
  localStorage,      \* localStorage['token']
  socketRef,         \* SocketProvider: socketRef.current
  isConnected,       \* SocketProvider: isConnected
  reconnectAttempts, \* SocketProvider: reconnectAttempts.current
  sock,              \* the sockets created so far and their transport state
  now,               \* the client clock, in milliseconds
  emitted,           \* the events emitted on the socket, in order
  srv,               \* the backend's message log
  last               \* the handler that ran last, with its input

vars == <<chat, auth, localStorage, socketRef, isConnected, reconnectAttempts,
          sock, now, emitted, srv, last>>

bridgeVars == <<auth, localStorage, socketRef, isConnected, reconnectAttempts,
                sock, now, emitted, srv>>

\* A Message (store.ts: interface Message).
Message(id, senderId, receiverId, text, image, createdAt) ==
  [ _id |-> id, senderId |-> senderId, receiverId |-> receiverId,
    text |-> text, image |-> image,
    createdAt |-> createdAt, updatedAt |-> createdAt ]

NoId == <<"none", "", 0>>

NoMessage == Message(NoId, "", "", "", Undefined, Stamp("iso", 0))

\* What `last` records: the handler, its conversation key, its message (or
\* update), the identifier it looked for, and whether the transport guard
\* of an outbound action passed.
Ran(op, key, msg, id, ok) ==
  [op |-> op, key |-> key, msg |-> msg, id |-> id, ok |-> ok]

\* What `last` holds after a step that is none of the message handlers.
Quiet == Ran("none", "", NoMessage, NoId, FALSE)

\* chats.find(c => c.receiverId === k)?.unreadCount, 0 without an entry.
unreadOf(state, k) ==
  IF chatIndexOf(state.chats, k) >= 1
  THEN state.chats[chatIndexOf(state.chats, k)].unreadCount
  ELSE 0

\* messages[k] || []
listOf(state, k) ==
  IF k \in DOMAIN state.messages THEN state.messages[k] ELSE << >>

\* The positions of identifier id in messages[k].
positionsOf(state, k, id) ==
  {i \in 1..Len(listOf(state, k)) : listOf(state, k)[i]._id = id}

\* ------------------------------------------------- the reducers on their own

\* Payloads for the reducers when they are exercised directly.
SampleIds == {ServerId(1), ServerId(2), TempOfNow(0)}

\* One message per identifier, and a second body for the first identifier,
\* written an instant later.
SampleMessages ==
  {Message(id, "u2", "u1", "a", Undefined, Stamp("iso", 0)) : id \in SampleIds}
  \cup {Message(ServerId(1), "u2", "u1", "b", Undefined, Stamp("iso", 1))}

\* The updates handed to updateMessage: one per identifier.
SampleUpdates ==
  {Message(id, "u2", "u1", "b", Undefined, Stamp("iso", 1)) : id \in SampleIds}

SampleKeys == {"u1", "u2"}

InitStore ==
  /\ chat = chatInitialState
  /\ auth = [user |-> Undefined, token |-> Undefined, isAuthenticated |-> FALSE]
  /\ localStorage = Undefined
  /\ socketRef = 0
  /\ isConnected = FALSE
  /\ reconnectAttempts = 0
  /\ sock = << >>
  /\ now = 0
  /\ emitted = << >>
  /\ srv = << >>
  /\ last = Quiet

\* dispatch(addMessage({receiverId, message}))
DispatchAddMessage(receiverId, message) ==
  /\ \/ Len(listOf(chat, receiverId)) < MaxLen
     \/ positionsOf(chat, receiverId, message._id) # {}
  /\ chat' = addMessage(chat, receiverId, message)
  /\ last' = Ran("addMessage", receiverId, message, message._id, TRUE)
  /\ UNCHANGED bridgeVars

\* dispatch(updateMessage({receiverId, messageId, updates}))
DispatchUpdateMessage(receiverId, messageId, updates) ==
  /\ chat' = updateMessage(chat, receiverId, messageId, updates)
  /\ last' = Ran("updateMessage", receiverId, updates, messageId, TRUE)
  /\ UNCHANGED bridgeVars

\* dispatch(setActiveChat({receiverId, receiver}))
DispatchSetActiveChat(receiverId) ==
  /\ chat' = setActiveChat(chat, receiverId)
  /\ last' = Ran("setActiveChat", receiverId, NoMessage, NoId, TRUE)
  /\ UNCHANGED bridgeVars

NextUpsert ==
  \/ \E k \in SampleKeys, m \in SampleMessages : DispatchAddMessage(k, m)
  \/ \E k \in SampleKeys : DispatchSetActiveChat(k)

SpecUpsert == InitStore /\ [][NextUpsert]_vars

NextStore ==
  \/ \E m \in SampleMessages : DispatchAddMessage("u2", m)
  \/ \E k \in SampleKeys, id \in SampleIds, m \in SampleUpdates :
       DispatchUpdateMessage(k, id, m)

SpecStore == InitStore /\ [][NextStore]_vars

\* The results of the messages query for a conversation: the backend's
\* history, oldest first.
Snapshots ==
  LET a == Message(ServerId(1), "u2", "u1", "a", Undefined, Stamp("iso", 0))
      b == Message(ServerId(2), "u1", "u2", "b", Undefined, Stamp("iso", 1))
  IN {<< >>, <<a>>, <<b>>, <<a, b>>}

\* What the initial load did last: the key, the list it stored and the list
\* it found.
Loaded(receiverId, messages, prev) ==
  [op |-> "setMessages", key |-> receiverId, list |-> messages,
   prev |-> prev, ok |-> TRUE]

\* ChatWindow's initial-load effect for the query result initialMessages.
InitialLoad(initialMessages) ==
  /\ Len(initialMessages) > 0
  /\ chat.activeChatId # Undefined
  /\ chat' = setMessages(chat, chat.activeChatId, initialMessages)
  /\ last' = Loaded(chat.activeChatId, initialMessages,
                    listOf(chat, chat.activeChatId))
  /\ UNCHANGED bridgeVars

\* Messages arriving in two conversations, the selection of one of them and
\* the load of its history.
NextSnapshot ==
  \/ \E k \in SampleKeys, m \in {x \in SampleMessages : x.text = "a"} :
       DispatchAddMessage(k, m)
  \/ \E k \in SampleKeys : DispatchSetActiveChat(k)
  \/ \E l \in Snapshots : InitialLoad(l)

SpecSnapshot == InitStore /\ [][NextSnapshot]_vars

\* dispatch(setMessages({receiverId, messages}))
DispatchSetMessages(receiverId, messages) ==
  /\ chat' = setMessages(chat, receiverId, messages)
  /\ last' = Loaded(receiverId, messages, listOf(chat, receiverId))
  /\ UNCHANGED bridgeVars

\* dispatch(removeMessage({receiverId, messageId}))
DispatchRemoveMessage(receiverId, messageId) ==
  /\ chat' = removeMessage(chat, receiverId, messageId)
  /\ last' = Ran("removeMessage", receiverId, NoMessage, messageId, TRUE)
  /\ UNCHANGED bridgeVars

\* The four reducers that write the message lists.
NextIndex ==
  \/ \E l \in Snapshots : DispatchSetMessages("u2", l)
  \/ /\ unreadOf(chat, "u2") < MaxUnread
     /\ \E m \in {x \in SampleMessages : x.text = "a"} :
          DispatchAddMessage("u2", m)
  \/ \E id \in SampleIds, m \in SampleUpdates : DispatchUpdateMessage("u2", id, m)
  \/ \E id \in SampleIds : DispatchRemoveMessage("u2", id)

SpecIndex == InitStore /\ [][NextIndex]_vars

\* The messages handed to handleNewSocketMessage: from two senders, some
\* sharing an identifier.
SocketMessages ==
  {Message(id, sender, "u1", "a", Undefined, Stamp("iso", 0)) :
     id \in {ServerId(1), ServerId(2)}, sender \in {"u2", "u3"}}

\* dispatch(handleNewSocketMessage(message))
DispatchHandleNewSocketMessage(message) ==
  /\ \/ Len(listOf(chat, message.senderId)) < MaxLen
     \/ positionsOf(chat, message.senderId, message._id) # {}
  /\ unreadOf(chat, message.senderId) < MaxUnread
  /\ chat' = handleNewSocketMessage(chat, message)
  /\ last' = Ran("handleNewSocketMessage", message.senderId, message,
                 message._id, TRUE)
  /\ UNCHANGED bridgeVars

NextSocketMessage ==
  \/ \E m \in SocketMessages : DispatchHandleNewSocketMessage(m)
  \/ \E k \in {"u2", "u3"} : DispatchSetActiveChat(k)

SpecSocketMessage == InitStore /\ [][NextSocketMessage]_vars

\* ------------------------------------------------- the bridge, in operation

\* The users of the runs below: the one who logs in, and the others.
Me == "u1"

Partners == {"u2", "u3"}

\* The partner of the runs that include the backend.
Peer == "u2"

\* What the composer holds when the form is submitted: text and whether a
\* file is selected.
Compositions == {<<"", FALSE>>, <<" ", FALSE>>, <<"hi", FALSE>>, <<"", TRUE>>}

\* const maxReconnectAttempts, passed to io as reconnectionAttempts.
maxReconnectAttempts == 5

\* A socket created by io(url, {auth: {token}, reconnection: true,
\* reconnectionAttempts: maxReconnectAttempts, forceNew: true}), with the
\* state of the manager it owns: `attempts` is the number of reconnection
\* attempts started since the manager last opened or closed, `opened`
\* whether it has ever connected, `errors` the connect_error events since
\* its last connect.
Socket(status, token) ==
  [status |-> status, token |-> token, attempts |-> 0, opened |-> FALSE,
   errors |-> 0]

\* The manager that retries for ever.
exhaustedNever(attempts) == FALSE

\* The manager's reconnect(): it gives up once reconnectionAttempts
\* reconnection attempts have been started and the last has failed.
exhausted(attempts) == attempts >= maxReconnectAttempts

\* The SocketProvider effect without the previous run's cleanup.
RunEffectNoCleanup(newAuth) ==
  IF ~newAuth.isAuthenticated \/ newAuth.token = Undefined
  THEN /\ sock' = sock
       /\ socketRef' = 0
       /\ isConnected' = FALSE
       /\ reconnectAttempts' = 0
  ELSE /\ sock' = Append(sock, Socket("connecting", newAuth.token))
       /\ socketRef' = Len(sock) + 1
       /\ UNCHANGED <<isConnected, reconnectAttempts>>

\* The SocketProvider effect, run once at mount and again whenever token or
\* isAuthenticated changed: the previous run's cleanup disconnects the socket
\* that run created (its 'disconnect' listener fires if it was connected),
\* then the body either closes the session or opens a new socket.
RunEffect(newAuth) ==
  LET hadSocket == socketRef # 0
      wasConnected == hadSocket /\ sock[socketRef].status = "connected"
      sock1 == IF hadSocket THEN [sock EXCEPT ![socketRef].status = "closed"]
               ELSE sock
      connected1 == IF wasConnected THEN FALSE ELSE isConnected
  IN IF ~newAuth.isAuthenticated \/ newAuth.token = Undefined
     THEN /\ sock' = sock1
          /\ socketRef' = 0
          /\ isConnected' = FALSE
          /\ reconnectAttempts' = 0
     ELSE /\ sock' = Append(sock1, Socket("connecting", newAuth.token))
          /\ socketRef' = Len(sock) + 1
          /\ isConnected' = connected1
          /\ UNCHANGED reconnectAttempts

\* The state after the store is built from localStorage and SocketProvider
\* has mounted: with a persisted token a first socket is being opened.
InitBridge ==
  /\ localStorage \in {Undefined, TokenOf(Me)}
  /\ auth = authInitialState(localStorage)
  /\ chat = chatInitialState
  /\ sock = IF auth.isAuthenticated THEN <<Socket("connecting", auth.token)>>
            ELSE << >>
  /\ socketRef = IF auth.isAuthenticated THEN 1 ELSE 0
  /\ isConnected = FALSE
  /\ reconnectAttempts = 0
  /\ now = 0
  /\ emitted = << >>
  /\ srv = << >>
  /\ last = Quiet

\* LoginForm.onSubmit once the login request succeeded: loginSuccess, then
\* the SocketProvider effect if its dependencies changed.
LoginSubmit(u) ==
  /\ auth' = loginSuccess(auth, u, TokenOf(u))
  /\ localStorage' = TokenOf(u)
  /\ IF auth'.token # auth.token \/ auth'.isAuthenticated # auth.isAuthenticated
     THEN RunEffect(auth')
     ELSE UNCHANGED <<socketRef, isConnected, reconnectAttempts, sock>>
  /\ last' = Quiet
  /\ UNCHANGED <<chat, now, emitted, srv>>

\* socket.on('connect')
OnConnect(i) ==
  /\ sock[i].status = "connecting"
  /\ sock' = [sock EXCEPT ![i].status = "connected", ![i].attempts = 0,
                          ![i].opened = TRUE, ![i].errors = 0]
  /\ isConnected' = TRUE
  /\ reconnectAttempts' = 0
  /\ last' = Quiet
  /\ UNCHANGED <<chat, auth, localStorage, socketRef, now, emitted, srv>>

\* socket.on('disconnect'): the transport dropped; the manager starts its
\* first reconnection attempt.
OnDisconnect(i) ==
  /\ sock[i].status = "connected"
  /\ sock' = [sock EXCEPT ![i].status = "connecting", ![i].attempts = 1]
  /\ isConnected' = FALSE
  /\ last' = Quiet
  /\ UNCHANGED <<chat, auth, localStorage, socketRef, reconnectAttempts, now,
                 emitted, srv>>

\* socket.on('connect_error'): an attempt to connect failed.  The handler
\* counts it; the manager starts the next reconnection attempt, or gives up
\* (reconnect_failed) when they are exhausted.
OnConnectError(i) ==
  /\ sock[i].status = "connecting"
  /\ reconnectAttempts' = reconnectAttempts + 1
  /\ sock' = [sock EXCEPT
               ![i].errors = @ + 1,
               ![i].status = IF exhausted(sock[i].attempts) THEN "failed" ELSE @,
               ![i].attempts = IF exhausted(@) THEN 0 ELSE @ + 1]
  /\ last' = Quiet
  /\ UNCHANGED <<chat, auth, localStorage, socketRef, isConnected, now,
                 emitted, srv>>

\* ChatSidebar.handleUserSelect
HandleUserSelect(userId) ==
  /\ chat' = setActiveChat(chat, userId)
  /\ last' = Quiet
  /\ UNCHANGED bridgeVars

\* SocketProvider.sendMessage(data)
SendMessage(data) ==
  LET placeholder == optimisticMessage(auth.user, data, now)
  IN IF ~transportReady(socketRef, isConnected)
     THEN /\ last' = Ran("sendMessage", data.receiverId,
                         Message(NoId, "", data.receiverId, data.text,
                                 data.image, toISOString(now)), NoId, FALSE)
          /\ UNCHANGED <<chat, emitted>>
     ELSE /\ Len(emitted) < MaxSends
          /\ chat' = addMessage(chat, data.receiverId, placeholder)
          /\ emitted' = Append(emitted, [data |-> data, socket |-> socketRef])
          /\ last' = Ran("sendMessage", data.receiverId, placeholder,
                         placeholder._id, TRUE)

\* ChatWindow.handleSendMessage for the composer's text and selected file.
\* The file is converted before the send; the handler is taken as one step.
HandleSendMessage(message, selectedFile) ==
  LET data == [receiverId |-> chat.activeChatId, text |-> trim(message),
               image |-> imageOf(selectedFile)]
  IN /\ IF canSend(message, selectedFile, chat.activeChatId,
                   chat.isSendingMessage)
        THEN SendMessage(data)
        ELSE /\ last' = Ran("handleSendMessage", chat.activeChatId,
                            Message(NoId, "", chat.activeChatId, data.text,
                                    data.image, toISOString(now)), NoId, FALSE)
             /\ UNCHANGED <<chat, emitted>>
     /\ UNCHANGED <<auth, localStorage, socketRef, isConnected,
                    reconnectAttempts, sock, now, srv>>

\* The sendPrivateMessage events the backend has stored so far.
consumed == Cardinality({j \in 1..Len(srv) : srv[j].own})

\* The backend stores the next sendPrivateMessage event it received and
\* stamps it with the time of its arrival, written in either spelling.
BackendStore(f) ==
  /\ consumed < Len(emitted)
  /\ Len(srv) < MaxSrv
  /\ LET e == emitted[consumed + 1]
         m == Message(ServerId(Len(srv) + 1), OwnerOf(sock[e.socket].token),
                      e.data.receiverId, e.data.text, e.data.image, Stamp(f, now))
     IN srv' = Append(srv, [msg |-> m, own |-> TRUE, confirmed |-> FALSE])
  /\ last' = Quiet
  /\ UNCHANGED <<chat, auth, localStorage, socketRef, isConnected,
                 reconnectAttempts, sock, now, emitted>>

\* The backend stores a message another user sent to the session's user.
BackendIncoming(i, sender) ==
  /\ Len(srv) < MaxSrv
  /\ sender # OwnerOf(sock[i].token)
  /\ LET m == Message(ServerId(Len(srv) + 1), sender, OwnerOf(sock[i].token),
                      "yo", Undefined, toISOString(now))
     IN srv' = Append(srv, [msg |-> m, own |-> FALSE, confirmed |-> FALSE])
  /\ last' = Quiet
  /\ UNCHANGED <<chat, auth, localStorage, socketRef, isConnected,
                 reconnectAttempts, sock, now, emitted>>

\* socket.on('newPrivateMessage') for the backend's j-th message.
OnNewPrivateMessage(i, j) ==
  /\ sock[i].status = "connected"
  /\ LET newMessage == srv[j].msg
         key == chatPartnerId(auth.user, newMessage)
     IN /\ chat' = addMessage(chat, key, newMessage)
        /\ last' = Ran("newPrivateMessage", key, newMessage, newMessage._id, TRUE)
  /\ UNCHANGED bridgeVars

\* socket.on('messageSent') for the backend's j-th message; `ok` records
\* whether the derived temporary key was found.
OnMessageSent(i, j) ==
  /\ sock[i].status = "connected"
  /\ srv[j].own
  /\ ~srv[j].confirmed
  /\ LET sentMessage == srv[j].msg
         messageId == TempOfStamp(sentMessage.createdAt)
     IN /\ chat' = updateMessage(chat, sentMessage.receiverId, messageId,
                                 sentMessage)
        /\ last' = Ran("messageSent", sentMessage.receiverId, sentMessage,
                       messageId,
                       positionsOf(chat, sentMessage.receiverId, messageId) # {})
  /\ srv' = [srv EXCEPT ![j].confirmed = TRUE]
  /\ UNCHANGED <<auth, localStorage, socketRef, isConnected, reconnectAttempts,
                 sock, now, emitted>>

\* A millisecond passes.
Tick ==
  /\ now < MaxClock
  /\ now' = now + 1
  /\ last' = Quiet
  /\ UNCHANGED <<chat, auth, localStorage, socketRef, isConnected,
                 reconnectAttempts, sock, emitted, srv>>

\* The composer, the transport and the clock, without the backend's answers.
NextSend ==
  \/ LoginSubmit(Me)
  \/ \E i \in 1..Len(sock) : OnConnect(i)
  \/ \E i \in 1..Len(sock) : OnDisconnect(i)
  \/ \E u \in Partners : HandleUserSelect(u)
  \/ \E c \in Compositions : HandleSendMessage(c[1], c[2])
  \/ Tick

SpecSend == InitBridge /\ [][NextSend]_vars

\* Sends of text, the backend's log, and the events it delivers.
NextBridge ==
  \/ LoginSubmit(Me)
  \/ \E i \in 1..Len(sock) : OnConnect(i)
  \/ \E i \in 1..Len(sock) : OnDisconnect(i)
  \/ HandleUserSelect(Peer)
  \/ HandleSendMessage("hi", FALSE)
  \/ \E f \in Formats : BackendStore(f)
  \/ \E i \in 1..Len(sock) : BackendIncoming(i, Peer)
  \/ \E i \in 1..Len(sock), j \in 1..Len(srv) : OnNewPrivateMessage(i, j)
  \/ \E i \in 1..Len(sock), j \in 1..Len(srv) : OnMessageSent(i, j)
  \/ Tick

SpecBridge == InitBridge /\ [][NextBridge]_vars

\* GET /messages/:receiverId answered from the backend's log as it stands:
\* the messages between the bearer of the token and the receiver, oldest
\* first.
messagesBetween(me, receiverId) ==
  LET between(e) ==
        \/ e.msg.senderId = me /\ e.msg.receiverId = receiverId
        \/ e.msg.senderId = receiverId /\ e.msg.receiverId = me
      log == SelectSeq(srv, between)
  IN [n \in 1..Len(log) |-> log[n].msg]

\* The response of the messages query for the active conversation arrives
\* and ChatWindow's initial-load effect stores it.  The response is taken
\* to be as fresh as it can be: the backend's log at the moment it is
\* applied.
HistoryLoad ==
  /\ auth.token # Undefined
  /\ chat.activeChatId # Undefined
  /\ InitialLoad(messagesBetween(OwnerOf(auth.token), chat.activeChatId))

\* Sends, the backend's log, the events it delivers and the history load.
NextLoad ==
  \/ LoginSubmit(Me)
  \/ \E i \in 1..Len(sock) : OnConnect(i)
  \/ \E i \in 1..Len(sock) : OnDisconnect(i)
  \/ HandleUserSelect(Peer)
  \/ HandleSendMessage("hi", FALSE)
  \/ \E f \in Formats : BackendStore(f)
  \/ \E i \in 1..Len(sock) : BackendIncoming(i, Peer)
  \/ \E i \in 1..Len(sock), j \in 1..Len(srv) : OnNewPrivateMessage(i, j)
  \/ \E i \in 1..Len(sock), j \in 1..Len(srv) : OnMessageSent(i, j)
  \/ HistoryLoad

SpecLoad == InitBridge /\ [][NextLoad]_vars

\* --------------------------------------------------------- typing indicators

\* The display names the backend sends with a userStartedTyping event.
SenderNames == {"Alice", "Al"}

\* What a typing handler did last: the event, its senderId and senderName,
\* and, for userStartedTyping, whether it repeats the event handled just
\* before it; for userStoppedTyping, whether the sender had an entry.
Typed(op, senderId, senderName, again) ==
  [op |-> op, key |-> senderId, username |-> senderName, ok |-> again]

\* socket.on('userStartedTyping')
OnUserStartedTyping(i, senderId, senderName) ==
  /\ sock[i].status = "connected"
  /\ chat' = addTypingUser(chat, [userId |-> senderId, username |-> senderName])
  /\ last' = Typed("userStartedTyping", senderId, senderName,
                   last = Typed("userStartedTyping", senderId, senderName, FALSE))
  /\ UNCHANGED bridgeVars

\* socket.on('userStoppedTyping')
OnUserStoppedTyping(i, senderId) ==
  /\ sock[i].status = "connected"
  /\ chat' = removeTypingUser(chat, senderId)
  /\ last' = Typed("userStoppedTyping", senderId, "",
                   \E k \in 1..Len(chat.typingUsers) :
                      chat.typingUsers[k].userId = senderId)
  /\ UNCHANGED bridgeVars

\* The session, the sidebar and the typing events of the other users.
NextTyping ==
  \/ LoginSubmit(Me)
  \/ \E i \in 1..Len(sock) : OnConnect(i)
  \/ \E i \in 1..Len(sock) : OnDisconnect(i)
  \/ \E u \in Partners : HandleUserSelect(u)
  \/ \E i \in 1..Len(sock), u \in Partners, n \in SenderNames :
       OnUserStartedTyping(i, u, n)
  \/ \E i \in 1..Len(sock), u \in Partners : OnUserStoppedTyping(i, u)

SpecTyping == InitBridge /\ [][NextTyping]_vars

\* The typing events with the progress the program can count on.  No step of
\* NextTyping is a timer: the handlers arm none (createTypingTimeout has no
\* caller), and userStoppedTyping and the sidebar's selection are events the
\* backend and the user may never produce.  What is assumed is only that a
\* socket that is connecting does connect.
SpecTypingLive ==
  SpecTyping /\ WF_vars(\E i \in 1..Len(sock) : OnConnect(i))

\* ------------------------------------------------------------------ presence

\* The snapshots a getOnlineUsers event carries: user objects, of which the
\* handler keeps the _id; one snapshot names a user twice.
OnlineLists ==
  { << >>, <<[_id |-> "u2"]>>, <<[_id |-> "u3"]>>,
    <<[_id |-> "u2"], [_id |-> "u3"]>>, <<[_id |-> "u3"], [_id |-> "u3"]>> }

\* onlineUsersList.map(u => u._id)
idsOf(onlineUsersList) ==
  [k \in 1..Len(onlineUsersList) |-> onlineUsersList[k]._id]

\* What a presence handler did last: the event, its userId and isOnline or
\* its snapshot, the online list it found, and whether it repeats the event
\* handled just before it.
Presence(op, userId, isOnline, list, prev, again) ==
  [op |-> op, key |-> userId, isOnline |-> isOnline, list |-> list,
   prev |-> prev, ok |-> again]

\* Whether the event handled last was this one.
sameAsLast(op, userId, isOnline) ==
  /\ last.op = op
  /\ last.key = userId
  /\ last.isOnline = isOnline

\* socket.on('userOnline')
OnUserOnline(i, userId) ==
  /\ sock[i].status = "connected"
  /\ chat' = addOnlineUser(chat, userId)
  /\ last' = Presence("userOnline", userId, TRUE, << >>, chat.onlineUsers,
                      sameAsLast("userOnline", userId, TRUE))
  /\ UNCHANGED bridgeVars

\* socket.on('userOffline')
OnUserOffline(i, userId) ==
  /\ sock[i].status = "connected"
  /\ chat' = removeOnlineUser(chat, userId)
  /\ last' = Presence("userOffline", userId, FALSE, << >>, chat.onlineUsers,
                      sameAsLast("userOffline", userId, FALSE))
  /\ UNCHANGED bridgeVars

\* socket.on('getOnlineUsers')
OnGetOnlineUsers(i, onlineUsersList) ==
  /\ sock[i].status = "connected"
  /\ chat' = setOnlineUsers(chat, idsOf(onlineUsersList))
  /\ last' = Presence("getOnlineUsers", "", FALSE, onlineUsersList,
                      chat.onlineUsers, FALSE)
  /\ UNCHANGED bridgeVars

\* socket.on('userStatus')
OnUserStatus(i, userId, isOnline) ==
  /\ sock[i].status = "connected"
  /\ chat' = IF isOnline THEN addOnlineUser(chat, userId)
             ELSE removeOnlineUser(chat, userId)
  /\ last' = Presence("userStatus", userId, isOnline, << >>, chat.onlineUsers,
                      sameAsLast("userStatus", userId, isOnline))
  /\ UNCHANGED bridgeVars

\* The session and the presence events of the other users.
NextPresence ==
  \/ LoginSubmit(Me)
  \/ \E i \in 1..Len(sock) : OnConnect(i)
  \/ \E i \in 1..Len(sock) : OnDisconnect(i)
  \/ \E i \in 1..Len(sock), u \in Partners : OnUserOnline(i, u)
  \/ \E i \in 1..Len(sock), u \in Partners : OnUserOffline(i, u)
  \/ \E i \in 1..Len(sock), l \in OnlineLists : OnGetOnlineUsers(i, l)
  \/ \E i \in 1..Len(sock), u \in Partners, b \in BOOLEAN : OnUserStatus(i, u, b)

SpecPresence == InitBridge /\ [][NextPresence]_vars

\* ------------------------------------------------------------------ sessions

\* The users who sign in from this browser.
Accounts == {"u1", "u2"}

\* What a session step did last: the step, and whether a socket was
\* connected when it ran.
Session(op, wasConnected) == [op |-> op, key |-> "", ok |-> wasConnected]

\* A sign-in that may open one more socket.
SignIn(u) ==
  /\ Len(sock) < MaxSock
  /\ LoginSubmit(u)

\* dispatch(logout()), then the SocketProvider effect if its dependencies
\* changed.
Logout ==
  /\ auth' = logout(auth)
  /\ localStorage' = Undefined
  /\ IF auth'.token # auth.token \/ auth'.isAuthenticated # auth.isAuthenticated
     THEN RunEffect(auth')
     ELSE UNCHANGED <<socketRef, isConnected, reconnectAttempts, sock>>
  /\ last' = Session("logout", socketRef # 0 /\ isConnected)
  /\ UNCHANGED <<chat, now, emitted, srv>>

\* Sign-ins, sign-outs and the transport's lifecycle events.
NextSession ==
  \/ \E u \in Accounts : SignIn(u)
  \/ Logout
  \/ \E i \in 1..Len(sock) : OnConnect(i)
  \/ \E i \in 1..Len(sock) : OnDisconnect(i)
  \/ \E i \in 1..Len(sock) : OnConnectError(i)

SpecSession == InitBridge /\ [][NextSession]_vars

\* One user's sign-ins and sign-outs, with the events the backend delivers
\* to the session.
NextClose ==
  \/ SignIn(Me)
  \/ Logout
  \/ \E i \in 1..Len(sock) : OnConnect(i)
  \/ \E i \in 1..Len(sock) : OnDisconnect(i)
  \/ HandleUserSelect(Peer)
  \/ \E i \in 1..Len(sock) : BackendIncoming(i, Peer)
  \/ \E i \in 1..Len(sock), j \in 1..Len(srv) : OnNewPrivateMessage(i, j)
  \/ \E i \in 1..Len(sock) : OnUserStartedTyping(i, "u3", "Al")
  \/ \E i \in 1..Len(sock) : OnUserStoppedTyping(i, "u3")
  \/ \E i \in 1..Len(sock) : OnUserOnline(i, Peer)
  \/ \E i \in 1..Len(sock) : OnUserOffline(i, Peer)

SpecClose == InitBridge /\ [][NextClose]_vars

\* The backend delivers its j-th message on socket i, the socket of one of
\* the two users the message is between.
DeliverNewPrivateMessage(i, j) ==
  /\ OwnerOf(sock[i].token) \in {srv[j].msg.senderId, srv[j].msg.receiverId}
  /\ OnNewPrivateMessage(i, j)

\* Two users signing in and out of the same page, and what the backend
\* delivers to the one who is signed in.
NextCross ==
  \/ \E u \in Accounts : SignIn(u)
  \/ Logout
  \/ \E i \in 1..Len(sock) : OnConnect(i)
  \/ \E i \in 1..Len(sock) : OnDisconnect(i)
  \/ \E i \in 1..Len(sock) : BackendIncoming(i, "u3")
  \/ \E i \in 1..Len(sock), j \in 1..Len(srv) : DeliverNewPrivateMessage(i, j)
  \/ \E i \in 1..Len(sock) : OnUserStartedTyping(i, "u3", "Al")
  \/ \E i \in 1..Len(sock) : OnUserOnline(i, "u3")

SpecCross == InitBridge /\ [][NextCross]_vars

\* ------------------------------------------------------ across page loads

\* dispatch(signupSuccess({message, data})), then the SocketProvider effect
\* if its dependencies changed.
SignupSuccess(u) ==
  /\ auth' = signupSuccess(auth, u)
  /\ IF auth'.token # auth.token \/ auth'.isAuthenticated # auth.isAuthenticated
     THEN RunEffect(auth')
     ELSE UNCHANGED <<socketRef, isConnected, reconnectAttempts, sock>>
  /\ last' = Session("signupSuccess", auth.isAuthenticated)
  /\ UNCHANGED <<chat, localStorage, now, emitted, srv>>

\* The page is loaded again: the page that goes away takes its socket with
\* it, the store is built anew from its initial states (the auth slice reads
\* localStorage), and SocketProvider mounts.  `ok` records the value of
\* isAuthenticated the page that went away had.
Restart ==
  /\ Len(sock) < MaxSock \/ localStorage = Undefined
  /\ auth' = authInitialState(localStorage)
  /\ chat' = chatInitialState
  /\ LET sock1 == IF socketRef # 0
                  THEN [sock EXCEPT ![socketRef].status = "closed"] ELSE sock
     IN IF auth'.isAuthenticated
        THEN /\ sock' = Append(sock1, Socket("connecting", auth'.token))
             /\ socketRef' = Len(sock) + 1
        ELSE /\ sock' = sock1
             /\ socketRef' = 0
  /\ isConnected' = FALSE
  /\ reconnectAttempts' = 0
  /\ last' = Session("restart", auth.isAuthenticated)
  /\ UNCHANGED <<localStorage, now, emitted, srv>>

\* Logins, signups and logouts of two accounts, the transport's lifecycle,
\* and reloads of the page.
NextRestart ==
  \/ \E u \in Accounts : SignIn(u)
  \/ \E u \in Accounts : SignupSuccess(u)
  \/ Logout
  \/ Restart
  \/ \E i \in 1..Len(sock) : OnConnect(i)
  \/ \E i \in 1..Len(sock) : OnDisconnect(i)

SpecRestart == InitBridge /\ [][NextRestart]_vars

\* The payloads of setCredentials: the signup response as SignupForm hands
\* it over ({message, data}: neither user nor token), a user without a
\* token, and a user with one.
CredentialPayloads ==
  {<<Undefined, Undefined>>}
    \cup {<<u, Undefined>> : u \in Accounts}
    \cup {<<u, TokenOf(u)>> : u \in Accounts}

\* dispatch(setCredentials({user, token})), its localStorage.setItem, then
\* the SocketProvider effect if its dependencies changed.
SetCredentials(user, token) ==
  /\ Len(sock) < MaxSock
  /\ auth' = setCredentials(auth, user, token, localStorage)
  /\ localStorage' = IF auth'.token # Undefined THEN auth'.token
                     ELSE localStorage
  /\ IF auth'.token # auth.token \/ auth'.isAuthenticated # auth.isAuthenticated
     THEN RunEffect(auth')
     ELSE UNCHANGED <<socketRef, isConnected, reconnectAttempts, sock>>
  /\ last' = Session("setCredentials", auth.isAuthenticated)
  /\ UNCHANGED <<chat, now, emitted, srv>>

\* dispatch(setUserFromStorage(user)), then the effect if its dependencies
\* changed.
SetUserFromStorage(u) ==
  /\ Len(sock) < MaxSock
  /\ auth' = setUserFromStorage(auth, u)
  /\ IF auth'.token # auth.token \/ auth'.isAuthenticated # auth.isAuthenticated
     THEN RunEffect(auth')
     ELSE UNCHANGED <<socketRef, isConnected, reconnectAttempts, sock>>
  /\ last' = Session("setUserFromStorage", auth.isAuthenticated)
  /\ UNCHANGED <<chat, localStorage, now, emitted, srv>>

\* dispatch(clearAuth()), then the effect if its dependencies changed.
ClearAuth ==
  /\ auth' = clearAuth(auth)
  /\ IF auth'.token # auth.token \/ auth'.isAuthenticated # auth.isAuthenticated
     THEN RunEffect(auth')
     ELSE UNCHANGED <<socketRef, isConnected, reconnectAttempts, sock>>
  /\ last' = Session("clearAuth", auth.isAuthenticated)
  /\ UNCHANGED <<chat, localStorage, now, emitted, srv>>

\* Every action of the auth slice, and the transport's lifecycle.
NextAuth ==
  \/ \E c \in CredentialPayloads : SetCredentials(c[1], c[2])
  \/ \E u \in Accounts : SignIn(u)
  \/ \E u \in Accounts : SignupSuccess(u)
  \/ \E u \in Accounts : SetUserFromStorage(u)
  \/ Logout
  \/ ClearAuth
  \/ \E i \in 1..Len(sock) : OnConnect(i)
  \/ \E i \in 1..Len(sock) : OnDisconnect(i)

SpecAuth == InitBridge /\ [][NextAuth]_vars

\* ------------------------------------------------------- the thread's groups

\* The length of a day and of a year on the model's clock: a day is two
\* instants long, a year three days.
MsPerDay == 2
DaysPerYear == 3

\* The calendar day of an instant (Date.prototype.toDateString).
dayOf(ts) == getTime(ts) \div MsPerDay

\* formatDate(timestamp), with the day `new Date()` gives when it is called:
\* 'Today', 'Yesterday', or the month and day of the month, without the year.
formatDate(timestamp, today) ==
  IF dayOf(timestamp) = today THEN <<"Today", 0>>
  ELSE IF dayOf(timestamp) = today - 1 THEN <<"Yesterday", 0>>
  ELSE <<"date", dayOf(timestamp) % DaysPerYear>>

\* [...messages].sort((a, b) => getTime(a.createdAt) - getTime(b.createdAt)):
\* a stable sort of a copy, by insertion.
RECURSIVE InsertByTime(_, _)
InsertByTime(sorted, m) ==
  IF sorted = << >> THEN <<m>>
  ELSE IF getTime(sorted[Len(sorted)].createdAt) <= getTime(m.createdAt)
       THEN Append(sorted, m)
       ELSE Append(InsertByTime(SubSeq(sorted, 1, Len(sorted) - 1), m),
                   sorted[Len(sorted)])

RECURSIVE SortByTime(_, _, _)
SortByTime(list, i, acc) ==
  IF i > Len(list) THEN acc
  ELSE SortByTime(list, i + 1, InsertByTime(acc, list[i]))

\* grouped[dateKey].push(msg), the keys kept in the order of their creation.
pushGrouped(grouped, dateKey, msg) ==
  IF \E g \in 1..Len(grouped) : grouped[g].dateKey = dateKey
  THEN [g \in 1..Len(grouped) |->
          IF grouped[g].dateKey = dateKey
          THEN [grouped[g] EXCEPT !.messages = Append(@, msg)]
          ELSE grouped[g]]
  ELSE Append(grouped, [dateKey |-> dateKey, messages |-> <<msg>>])

RECURSIVE GroupFrom(_, _, _, _)
GroupFrom(sortedMessages, i, grouped, today) ==
  IF i > Len(sortedMessages) THEN grouped
  ELSE GroupFrom(sortedMessages, i + 1,
                 pushGrouped(grouped,
                             formatDate(sortedMessages[i].createdAt, today),
                             sortedMessages[i]),
                 today)

\* groupMessagesByDate without the sort.
groupMessagesByDateUnsorted(messages, today) ==
  GroupFrom(messages, 1, << >>, today)

\* groupMessagesByDate(messages), called on the day `today`.
groupMessagesByDate(messages, today) ==
  GroupFrom(SortByTime(messages, 1, << >>), 1, << >>, today)

\* Messages of one conversation written on different days and years.
ThreadMessages ==
  { Message(ServerId(1), "u2", "u1", "a", Undefined, Stamp("iso", 0)),
    Message(ServerId(2), "u2", "u1", "b", Undefined, Stamp("iso", 1)),
    Message(ServerId(3), "u1", "u2", "c", Undefined, Stamp("iso", 2)),
    Message(ServerId(4), "u2", "u1", "d", Undefined, Stamp("iso", 7)) }

\* What the thread view computed last: the conversation, the list it read,
\* the day of the call, the groups it made, and whether it repeats, on the
\* same day and list, the call made just before it.
Grouped(receiverId, messages, today, grouped) ==
  [op |-> "groupMessagesByDate", key |-> receiverId, list |-> messages,
   today |-> today, groups |-> grouped,
   ok |-> /\ last.op = "groupMessagesByDate"
          /\ last.key = receiverId
          /\ last.list = messages
          /\ last.today = today]

\* ChatWindow renders the active conversation's thread.
Render ==
  /\ chat.activeChatId # Undefined
  /\ last' = Grouped(chat.activeChatId, listOf(chat, chat.activeChatId),
                     now \div MsPerDay,
                     groupMessagesByDate(listOf(chat, chat.activeChatId),
                                         now \div MsPerDay))
  /\ UNCHANGED <<chat, bridgeVars>>

\* A day passes with the window open.
NextDay ==
  /\ now < MaxDays * MsPerDay
  /\ now' = now + MsPerDay
  /\ UNCHANGED <<chat, auth, localStorage, socketRef, isConnected,
                 reconnectAttempts, sock, emitted, srv, last>>

\* Messages stored in any order, the thread rendered again and again.
NextThread ==
  \/ \E m \in ThreadMessages : DispatchAddMessage(Peer, m)
  \/ DispatchSetActiveChat(Peer)
  \/ Render
  \/ NextDay

SpecThread == InitStore /\ [][NextThread]_vars

\* ----------------------------------------------------- who writes the store

\* The session's events next to the two things the user interface dispatches
\* on its own: the sidebar's selection and the thread view's history load.
NextOwnership ==
  \/ LoginSubmit(Me)
  \/ \E i \in 1..Len(sock) : OnConnect(i)
  \/ \E i \in 1..Len(sock) : OnDisconnect(i)
  \/ \E u \in Partners : DispatchSetActiveChat(u)
  \/ \E l \in Snapshots : InitialLoad(l)
  \/ \E i \in 1..Len(sock), u \in Partners : OnUserStartedTyping(i, u, "Al")
  \/ \E i \in 1..Len(sock) : OnUserOnline(i, Peer)
  \/ \E i \in 1..Len(sock) : BackendIncoming(i, Peer)
  \/ \E i \in 1..Len(sock), j \in 1..Len(srv) : OnNewPrivateMessage(i, j)

SpecOwnership == InitBridge /\ [][NextOwnership]_vars

\* ----------------------------------------------------------------- claims

\* C1: addMessage is an idempotent insert.  In every state reached by
\* addMessage calls alone no identifier occurs twice in a conversation's
\* list; a call whose _id is already in messages[key] changes nothing of the
\* chat state; a call with a new _id appends exactly that message (and its
\* _id to messageIds[key]) at the end and leaves the earlier entries alone.
C1_UniqueIds ==
  \A k \in DOMAIN chat.messages :
    \A i, j \in 1..Len(chat.messages[k]) :
      chat.messages[k][i]._id = chat.messages[k][j]._id => i = j

C1_UpsertStep ==
  last'.op = "addMessage" =>
    LET k == last'.key
        m == last'.msg
    IN IF positionsOf(chat, k, m._id) # {}
       THEN chat' = chat
       ELSE /\ chat'.messages[k] = Append(listOf(chat, k), m)
            /\ chat'.messageIds[k] =
                 Append(IF k \in DOMAIN chat.messageIds
                        THEN chat.messageIds[k] ELSE << >>, m._id)
            /\ \A o \in DOMAIN chat.messages :
                 o # k => chat'.messages[o] = chat.messages[o]

C1_IdempotentInsert == [](C1_UniqueIds) /\ [][C1_UpsertStep]_vars

\* C1 witness: a second addMessage for an identifier already stored, with a
\* different body, has run and the list holds that identifier once, with the
\* body of the first call.
C1_Witness ==
  /\ last.op = "addMessage"
  /\ Cardinality(positionsOf(chat, last.key, last.id)) = 1
  /\ \E i \in positionsOf(chat, last.key, last.id) :
       chat.messages[last.key][i] # last.msg
  /\ Len(listOf(chat, last.key)) >= 2

\* C6: updateMessage changes nothing when nothing matches: if the key has
\* no list, or no entry of messages[receiverId] has the given messageId,
\* the chat state after the call equals the chat state before it.
C6_NoMatchNoChange ==
  [][(last'.op = "updateMessage" /\ positionsOf(chat, last'.key, last'.id) = {})
       => chat' = chat]_vars

\* C6 witness: an updateMessage ran on a non-empty list that has no entry
\* with the identifier it looked for, nor the update's own identifier.
C6_Witness ==
  /\ last.op = "updateMessage"
  /\ positionsOf(chat, last.key, last.id) = {}
  /\ positionsOf(chat, last.key, last.msg._id) = {}
  /\ Len(listOf(chat, last.key)) >= 1

\* C2: no two entries of a conversation's list have the same _id, in every
\* state reached by sends, newPrivateMessage and messageSent events.
C2_NoDuplicateIds ==
  \A k \in DOMAIN chat.messages :
    Cardinality({chat.messages[k][i]._id : i \in 1..Len(chat.messages[k])})
      = Len(chat.messages[k])

\* C3: every sendMessage made while connected appends to messages[receiverId]
\* a placeholder with a temp_ identifier, the authenticated user as sender,
\* the given receiver, text and image, in the same step in which the
\* sendPrivateMessage event is emitted; and the backend confirms no more
\* sends than were emitted.
C3_SendStep ==
  (last'.op = "sendMessage" /\ socketRef # 0 /\ isConnected) =>
    LET r == last'.key
        e == emitted'[Len(emitted')]
        p == chat'.messages[r][Len(chat'.messages[r])]
    IN /\ Len(emitted') = Len(emitted) + 1
       /\ e.data.receiverId = r
       /\ chat'.messages[r] = Append(listOf(chat, r), p)
       /\ p._id[1] = "temp_"
       /\ p.senderId = OwnerOf(sock[socketRef].token)
       /\ p.receiverId = r
       /\ p.text = e.data.text
       /\ p.image = e.data.image

C3_ConfirmedWereSent ==
  Cardinality({j \in 1..Len(srv) : srv[j].own /\ srv[j].confirmed})
    <= Len(emitted)

C3_OptimisticInsert == [](C3_ConfirmedWereSent) /\ [][C3_SendStep]_vars

\* C4: when a messageSent confirmation's derived key is found in
\* messages[receiverId], the list keeps its length, the matched position
\* holds the server's message, every other position is as before, and the
\* list holds exactly one entry with the server's identifier.
C4_ReplaceStep ==
  (last'.op = "messageSent" /\ positionsOf(chat, last'.key, last'.id) # {}) =>
    LET r == last'.key
        old == chat.messages[r]
        new == chat'.messages[r]
        i == messageIndexOf(old, last'.id)
    IN /\ Len(new) = Len(old)
       /\ new[i] = last'.msg
       /\ \A j \in 1..Len(old) : j # i => new[j] = old[j]
       /\ Cardinality(positionsOf(chat', r, last'.msg._id)) = 1

C4_ReplaceInPlace == [][C4_ReplaceStep]_vars

\* C5 as claimed: after one send to u2 and a messageSent whose derived key
\* was not found, messages["u2"] holds two messages.
C5_TwoMessages ==
  (last.op = "messageSent" /\ ~last.ok /\ last.key = "u2" /\ Len(emitted) = 1)
    => Len(listOf(chat, "u2")) = 2

\* C5 as amended: a messageSent whose derived key is not found in
\* messages[receiverId] leaves the chat state as it was: the placeholder is
\* neither replaced nor joined by the server's message.
C5_MismatchStep ==
  (last'.op = "messageSent" /\ positionsOf(chat, last'.key, last'.id) = {}) =>
    /\ chat' = chat
    /\ Len(listOf(chat', last'.key)) = Len(listOf(chat, last'.key))

C5_MismatchChangesNothing == [][C5_MismatchStep]_vars

\* C5 witness: a confirmation whose key was not found has been handled and
\* messages[receiverId] holds the placeholder alone.
C5_Witness ==
  /\ last.op = "messageSent"
  /\ ~last.ok
  /\ Len(listOf(chat, last.key)) = 1
  /\ listOf(chat, last.key)[1]._id[1] = "temp_"
  /\ positionsOf(chat, last.key, last.msg._id) = {}

\* C7: a submit with neither text (after trimming) nor image changes neither
\* the chat state nor the emitted events, connected or not.
C7_EmptyStep ==
  (/\ last'.op \in {"handleSendMessage", "sendMessage"}
   /\ last'.msg.text = ""
   /\ last'.msg.image = Undefined)
    => (chat' = chat /\ emitted' = emitted)

C8_GuardStep ==
  (last'.op = "sendMessage" /\ (socketRef = 0 \/ ~isConnected))
    => (chat' = chat /\ emitted' = emitted)

C8_DisconnectedSendNoOp == [][C8_GuardStep]_vars

\* C8 witness: a send with content was rejected on a socket that had been
\* connected, sent a message, and then lost its connection.
C8_Witness ==
  /\ last.op = "sendMessage"
  /\ ~last.ok
  /\ last.msg.text = "hi"
  /\ socketRef # 0
  /\ ~isConnected
  /\ Len(emitted) >= 1

\* C9: a newPrivateMessage is stored under the other participant: under
\* receiverId when the authenticated user is the sender, under senderId
\* otherwise, and never under the authenticated user's own identifier when
\* sender and receiver differ.
C9_KeyStep ==
  last'.op = "newPrivateMessage" =>
    LET m == last'.msg
        me == OwnerOf(auth.token)
    IN /\ last'.key = (IF m.senderId = me THEN m.receiverId ELSE m.senderId)
       /\ (m.senderId # m.receiverId => last'.key # me)
       /\ positionsOf(chat', last'.key, m._id) # {}

C9_KeyedByOtherParticipant == [][C9_KeyStep]_vars

\* C10: typingUsers holds at most one entry per userId in every reachable
\* state, and a userStartedTyping for a user leaves exactly one entry for
\* that user, the event's own, at the end of the list, with the other
\* users' entries kept in order.
C10_AtMostOne ==
  \A i, j \in 1..Len(chat.typingUsers) :
    chat.typingUsers[i].userId = chat.typingUsers[j].userId => i = j

C10_ReplaceStep ==
  last'.op = "userStartedTyping" =>
    LET u == last'.key
        new == chat'.typingUsers
    IN /\ Cardinality({i \in 1..Len(new) : new[i].userId = u}) = 1
       /\ new[Len(new)] = [userId |-> u, username |-> last'.username]
       /\ SubSeq(new, 1, Len(new) - 1) =
            SelectSeq(chat.typingUsers, LAMBDA e : e.userId # u)

C10_OneEntryPerUser == [](C10_AtMostOne) /\ [][C10_ReplaceStep]_vars

\* C10 witness: the same userStartedTyping was handled twice in a row while
\* another user was typing too, and the list holds one entry for the sender.
C10_Witness ==
  /\ last.op = "userStartedTyping"
  /\ last.ok
  /\ Len(chat.typingUsers) = 2
  /\ Cardinality({i \in 1..Len(chat.typingUsers) :
                    chat.typingUsers[i].userId = last.key}) = 1

\* C11: a userStoppedTyping for a user with no typing entry leaves the whole
\* chat state unchanged; for a user with an entry it removes that user's
\* entry, keeps the other users' entries in their order, and changes nothing
\* else of the chat state.
C11_RemoveStep ==
  last'.op = "userStoppedTyping" =>
    LET u == last'.key
        old == chat.typingUsers
        new == chat'.typingUsers
        had == {k \in 1..Len(old) : old[k].userId = u}
    IN /\ had = {} => chat' = chat
       /\ \A k \in 1..Len(new) : new[k].userId # u
       /\ Len(new) = Len(old) - Cardinality(had)
       /\ \A k \in 1..Len(old) : old[k].userId # u =>
            new[k - Cardinality({h \in had : h < k})] = old[k]
       /\ chat' = [chat EXCEPT !.typingUsers = new]

C11_RemoveOnlyThatUser == [][C11_RemoveStep]_vars

\* C11 witness: a userStoppedTyping was handled for a user who had no entry
\* while another user's entry was in the list, and that entry is still there.
C11_Witness ==
  /\ last.op = "userStoppedTyping"
  /\ ~last.ok
  /\ Len(chat.typingUsers) >= 1
  /\ \A k \in 1..Len(chat.typingUsers) : chat.typingUsers[k].userId # last.key

\* C12: every typing entry is eventually removed from typingUsers, whether
\* or not a userStoppedTyping event arrives for its user.
C12_EntriesExpire ==
  \A u \in Partners :
    (\E k \in 1..Len(chat.typingUsers) : chat.typingUsers[k].userId = u)
      ~> (\A k \in 1..Len(chat.typingUsers) : chat.typingUsers[k].userId # u)

\* C13: a getOnlineUsers event makes onlineUsers exactly the identifiers of
\* the users it carries, in their order: no identifier that was online
\* before and is not in the snapshot remains, and nothing else of the chat
\* state changes.
C13_SnapshotStep ==
  last'.op = "getOnlineUsers" =>
    LET U == {last'.list[k]._id : k \in 1..Len(last'.list)}
        new == chat'.onlineUsers
    IN /\ Len(new) = Len(last'.list)
       /\ \A k \in 1..Len(new) : new[k] = last'.list[k]._id
       /\ \A k \in 1..Len(chat.onlineUsers) :
            chat.onlineUsers[k] \notin U =>
              \A n \in 1..Len(new) : new[n] # chat.onlineUsers[k]
       /\ chat' = [chat EXCEPT !.onlineUsers = new]

C13_SnapshotReplaces == [][C13_SnapshotStep]_vars

\* C13 witness: a snapshot was handled that left a user online and dropped
\* another who had been online before it.
C13_Witness ==
  /\ last.op = "getOnlineUsers"
  /\ Len(chat.onlineUsers) >= 1
  /\ \E k \in 1..Len(last.prev) :
       \A n \in 1..Len(chat.onlineUsers) : chat.onlineUsers[n] # last.prev[k]

\* C14: userOnline and userStatus{isOnline: true} add the user to
\* onlineUsers unless already there (the identifier's count never grows
\* past what it was, or one); userOffline and userStatus{isOnline: false}
\* remove every occurrence of the user and change nothing when there is
\* none; the other identifiers keep their order; nothing else of the chat
\* state changes; and an event that repeats the one handled just before it
\* changes nothing.
C14_Count(list, u) == Cardinality({k \in 1..Len(list) : list[k] = u})

C14_PresenceStep ==
  last'.op \in {"userOnline", "userOffline", "userStatus"} =>
    LET u == last'.key
        old == chat.onlineUsers
        new == chat'.onlineUsers
        others(list) == SelectSeq(list, LAMBDA id : id # u)
    IN /\ IF last'.isOnline
          THEN /\ C14_Count(new, u) = IF C14_Count(old, u) = 0 THEN 1
                                       ELSE C14_Count(old, u)
               /\ C14_Count(old, u) = 0 => new = Append(old, u)
               /\ C14_Count(old, u) > 0 => new = old
          ELSE /\ C14_Count(new, u) = 0
               /\ C14_Count(old, u) = 0 => new = old
       /\ others(new) = others(old)
       /\ chat' = [chat EXCEPT !.onlineUsers = new]
       /\ last'.ok => chat' = chat

C14_IdempotentPresence == [][C14_PresenceStep]_vars

\* C14 witness: a userOnline repeated the userOnline handled just before it,
\* and the user is online once, after another user.
C14_Witness ==
  /\ last.op = "userOnline"
  /\ last.ok
  /\ Len(chat.onlineUsers) = 2
  /\ chat.onlineUsers[2] = last.key
  /\ chat.onlineUsers[1] # last.key

\* C14 witness for removal: a userOffline repeated the userOffline handled
\* just before it while another user stayed online.
C14_WitnessOffline ==
  /\ last.op = "userOffline"
  /\ last.ok
  /\ Len(chat.onlineUsers) >= 1

\* C15: after logout the persisted token is gone, the in-memory token and
\* user are null and isAuthenticated is false; the socket the session held
\* is disconnected, socketRef is null and isConnected is false.
C15_LogoutStep ==
  last'.op = "logout" =>
    /\ localStorage' = Undefined
    /\ auth'.token = Undefined
    /\ auth'.user = Undefined
    /\ ~auth'.isAuthenticated
    /\ socketRef' = 0
    /\ ~isConnected'
    /\ socketRef # 0 => sock'[socketRef].status = "closed"

C15_LogoutClearsSession == [][C15_LogoutStep]_vars

\* C15 witness: a logout ran while a socket was connected; that socket is
\* closed and nothing of the session is left.
C15_Witness ==
  /\ last.op = "logout"
  /\ last.ok
  /\ socketRef = 0
  /\ \E i \in 1..Len(sock) : sock[i].status = "closed"

\* C16: at most one socket is not disconnected in any reachable state, and
\* it is the one socketRef holds; whenever a new socket is created every
\* socket created before it has been disconnected.
C16_OneLive ==
  \A i \in 1..Len(sock) : sock[i].status # "closed" => i = socketRef

C16_OpenStep ==
  Len(sock') > Len(sock) =>
    \A i \in 1..Len(sock) : sock'[i].status = "closed"

C16_OneLiveSession == [](C16_OneLive) /\ [][C16_OpenStep]_vars

\* C16 witness: a second socket was opened for another token while the
\* first one was connected; the first is disconnected, the second live.
C16_Witness ==
  /\ Len(sock) = 2
  /\ sock[1].status = "closed"
  /\ sock[1].opened
  /\ sock[1].attempts = 0
  /\ sock[2].token # sock[1].token
  /\ sock[2].status = "connected"
  /\ socketRef = 2

C17_Exhausted ==
  \A i \in 1..Len(sock) :
    /\ sock[i].errors >= maxReconnectAttempts + (IF sock[i].opened THEN 0 ELSE 1)
         => sock[i].status \in {"failed", "closed"}
    /\ (sock[i].status = "failed" /\ i = socketRef) => ~isConnected

C17_TerminalStep ==
  \A i \in 1..Len(sock) :
    sock[i].status = "failed" =>
      /\ sock'[i].status \in {"failed", "closed"}
      /\ sock'[i].status = "closed" => socketRef' # i
      /\ sock'[i].status = "failed" => (socketRef' = socketRef /\ ~isConnected')

C17_WitnessAfterDrop ==
  /\ socketRef # 0
  /\ sock[socketRef].status = "failed"
  /\ sock[socketRef].opened
  /\ sock[socketRef].errors = maxReconnectAttempts

\* C18: an event is handled only for the session's own socket while it is
\* connected; and while every socket created so far is disconnected, a step
\* that opens no new socket changes neither the messages, nor the online
\* users, nor isConnected, nor (the user's own selection of a conversation
\* apart) the typing users.
C18_Events ==
  {"newPrivateMessage", "messageSent", "userStartedTyping",
   "userStoppedTyping", "userOnline", "userOffline", "userStatus",
   "getOnlineUsers"}

C18_ClosedStep ==
  /\ last'.op \in C18_Events =>
       /\ socketRef # 0
       /\ sock[socketRef].status = "connected"
       /\ \A i \in 1..Len(sock) : i # socketRef => sock[i].status = "closed"
  /\ ((\A i \in 1..Len(sock) : sock[i].status = "closed")
        /\ Len(sock') = Len(sock)) =>
       /\ chat'.messages = chat.messages
       /\ chat'.messageIds = chat.messageIds
       /\ chat'.onlineUsers = chat.onlineUsers
       /\ isConnected' = isConnected
       /\ \/ chat'.typingUsers = chat.typingUsers
          \/ \E u \in Partners : chat' = setActiveChat(chat, u)

C18_ClosedSessionIsSilent == [][C18_ClosedStep]_vars

\* C18 witness: the session was closed by a logout while connected, the
\* backend holds a message for the user that was never delivered, and the
\* message store is still empty.
C18_Witness ==
  /\ last.op = "logout"
  /\ last.ok
  /\ \A i \in 1..Len(sock) : sock[i].status = "closed"
  /\ Len(srv) >= 1
  /\ DOMAIN chat.messages = {}
  /\ ~isConnected

\* C19: setMessages for key k makes messages[k] exactly the given list and
\* messageIds[k] exactly its identifiers in order; the lists of every other
\* key, and the rest of the chat state, are unchanged.
C19_SnapshotStep ==
  last'.op = "setMessages" =>
    LET k == last'.key
        given == last'.list
    IN /\ chat'.messages[k] = given
       /\ Len(chat'.messageIds[k]) = Len(given)
       /\ \A n \in 1..Len(given) : chat'.messageIds[k][n] = given[n]._id
       /\ DOMAIN chat'.messages = DOMAIN chat.messages \cup {k}
       /\ \A o \in DOMAIN chat.messages : o # k =>
            /\ chat'.messages[o] = chat.messages[o]
            /\ chat'.messageIds[o] = chat.messageIds[o]
       /\ chat' = [chat EXCEPT !.messages = chat'.messages,
                               !.messageIds = chat'.messageIds]

C19_SetMessagesReplaces == [][C19_SnapshotStep]_vars

\* C19 witness: a load replaced a list holding an entry that is not in the
\* loaded list, while another conversation had messages of its own.
C19_Witness ==
  /\ last.op = "setMessages"
  /\ \E n \in 1..Len(last.prev) :
       positionsOf(chat, last.key, last.prev[n]._id) = {}
  /\ \E o \in DOMAIN chat.messages :
       o # last.key /\ Len(chat.messages[o]) >= 1

\* C20: groupMessagesByDate leaves the stored list as it is, puts every
\* message of the list in exactly one group, keeps each group in ascending
\* createdAt order whatever the stored order, and gives the same groups when
\* it is called again on an unchanged list.
C20_GroupsInOrder ==
  last.op = "groupMessagesByDate" =>
    /\ \A g \in 1..Len(last.groups) :
         \A i, j \in 1..Len(last.groups[g].messages) :
           i < j => getTime(last.groups[g].messages[i].createdAt)
                      <= getTime(last.groups[g].messages[j].createdAt)
    /\ \A n \in 1..Len(last.list) :
         Cardinality({<<g, i>> \in (1..Len(last.groups)) \X (1..Len(last.list)) :
                        /\ i <= Len(last.groups[g].messages)
                        /\ last.groups[g].messages[i] = last.list[n]}) = 1

C20_RenderStep ==
  last'.op = "groupMessagesByDate" =>
    /\ chat' = chat
    /\ (/\ last.op = "groupMessagesByDate"
        /\ last.key = last'.key
        /\ last.list = last'.list) => last'.groups = last.groups

C20_SameDayStep ==
  last'.op = "groupMessagesByDate" =>
    /\ chat' = chat
    /\ (/\ last.op = "groupMessagesByDate"
        /\ last.key = last'.key
        /\ last.list = last'.list
        /\ last.today = last'.today) => last'.groups = last.groups

C21_UiStep ==
  last'.op \in {"setActiveChat", "setMessages"} =>
    /\ chat'.messages = chat.messages
    /\ chat'.onlineUsers = chat.onlineUsers
    /\ chat'.typingUsers = chat.typingUsers

C21_OnlyBridgeWrites == [][C21_UiStep]_vars

\* C22: the persisted token alone seeds authentication.  After a page load
\* token is the persisted token and isAuthenticated says whether there is
\* one; and after any sequence of loginSuccess, signupSuccess and logout a
\* page load gives isAuthenticated the value it had just before.
C22_SeededByToken ==
  last.op = "restart" =>
    /\ auth.token = localStorage
    /\ auth.isAuthenticated = (localStorage # Undefined)

C22_RestartStep ==
  last'.op = "restart" => auth'.isAuthenticated = auth.isAuthenticated

C22_RestartKeepsAuthenticated == [](C22_SeededByToken) /\ [][C22_RestartStep]_vars

\* C23: unread accounting in addMessage.  A newly inserted message for a
\* conversation that is not the active one raises that conversation's
\* unreadCount by exactly 1 (an entry created for it starts at 1); one for
\* the active conversation does not raise it (an entry created for it starts
\* at 0); a duplicate leaves the counters alone; setActiveChat(k) leaves k's
\* unreadCount at 0.
C23_UnreadStep ==
  /\ last'.op = "addMessage" =>
       LET k == last'.key
       IN IF positionsOf(chat, k, last'.id) # {}
          THEN chat'.chats = chat.chats
          ELSE /\ chatIndexOf(chat'.chats, k) >= 1
               /\ unreadOf(chat', k) =
                    IF chat.activeChatId = k THEN unreadOf(chat, k)
                    ELSE unreadOf(chat, k) + 1
  /\ last'.op = "setActiveChat" => unreadOf(chat', last'.key) = 0

C23_UnreadAccounting == [][C23_UnreadStep]_vars

\* C23 witness: a second message was just added to a conversation that is
\* not the active one and its counter stands at 2, while the active
\* conversation holds a message and its counter stands at 0.
C23_Witness ==
  /\ last.op = "addMessage"
  /\ last.key # chat.activeChatId
  /\ unreadOf(chat, last.key) = 2
  /\ chat.activeChatId # Undefined
  /\ Len(listOf(chat, chat.activeChatId)) >= 1
  /\ chatIndexOf(chat.chats, chat.activeChatId) >= 1
  /\ unreadOf(chat, chat.activeChatId) = 0

\* C24: handleNewSocketMessage counts each received message once.  For a
\* message whose sender is not the active conversation the sender's
\* unreadCount rises by exactly 1 when the message is new and by 0 when its
\* _id is already stored; for a message from the active conversation it
\* does not rise.
C24_CountStep ==
  last'.op = "handleNewSocketMessage" =>
    LET k == last'.key
    IN unreadOf(chat', k) =
         IF chat.activeChatId # k /\ positionsOf(chat, k, last'.id) = {}
         THEN unreadOf(chat, k) + 1
         ELSE unreadOf(chat, k)

C24_CountedOnce == [][C24_CountStep]_vars

\* C25: the placeholder's identifier and the key derived from a confirmation
\* agree whenever the timestamps agree.  When messageSent carries a createdAt
\* that denotes the instant the client's clock showed at the send, the
\* derived key is the placeholder's _id and the placeholder is replaced by
\* the server's message.
C25_AgreeStep ==
  last'.op = "messageSent" =>
    \A i \in 1..Len(listOf(chat, last'.key)) :
      LET p == listOf(chat, last'.key)[i]
      IN (p._id[1] = "temp_" /\ p._id[3] = getTime(last'.msg.createdAt)) =>
           /\ last'.id = p._id
           /\ chat'.messages[last'.key][i] = last'.msg

C25_SameInstantSameKey == [][C25_AgreeStep]_vars

\* C26: no real-time message is lost to the history load.  Every message
\* that was in messages[k] before the history response is applied is in
\* messages[k] after it: under its own _id or, for a placeholder, as a
\* message to the same receiver with the same text and image.
C26_LoadStep ==
  last'.op = "setMessages" =>
    \A n \in 1..Len(last'.prev) :
      LET m == last'.prev[n]
      IN \E i \in 1..Len(chat'.messages[last'.key]) :
           LET x == chat'.messages[last'.key][i]
           IN \/ x._id = m._id
              \/ /\ m._id[1] = "temp_"
                 /\ x.receiverId = m.receiverId
                 /\ x.text = m.text
                 /\ x.image = m.image

C26_LoadKeepsRealTime == [][C26_LoadStep]_vars

\* C27: conversation and presence state does not cross login sessions.
\* When, after a logout, a user logs in who is not the user of the session
\* before, the store holds no messages, chats, online users or typing
\* entries: nothing stored during the earlier session is left.
C27_LoginStep ==
  (/\ auth.token = Undefined
   /\ auth'.token # Undefined
   /\ Len(sock) >= 1
   /\ sock[Len(sock)].token # auth'.token) =>
    /\ DOMAIN chat'.messages = {}
    /\ chat'.chats = << >>
    /\ chat'.onlineUsers = << >>
    /\ chat'.typingUsers = << >>

C27_NothingCrossesSessions == [][C27_LoginStep]_vars

\* C28: in every state reached through setCredentials, loginSuccess,
\* signupSuccess, setUserFromStorage, logout and clearAuth, isAuthenticated
\* being true implies that the in-memory token is not null.
C28_AuthenticatedHasToken ==
  auth.isAuthenticated => auth.token # Undefined

\* C29: isConnected is true only while the current session's socket exists
\* and is connected.  In every state reached through connect, disconnect,
\* connect_error, logout and a re-open on a change of token, isConnected
\* implies that socketRef is not null and refers to a socket whose last
\* lifecycle event was connect; so the guard of sendMessage, startTyping and
\* stopTyping passes only for a connected socket.
C29_ConnectedIsCurrent ==
  /\ isConnected => (socketRef # 0 /\ sock[socketRef].status = "connected")
  /\ transportReady(socketRef, isConnected) =>
       sock[socketRef].status = "connected"

\* C29 witness: a second user's session is connected after the first
\* user's session, which had been connected, was replaced by it.
C29_Witness ==
  /\ isConnected
  /\ Len(sock) = 2
  /\ socketRef = 2
  /\ sock[1].opened
  /\ sock[1].status = "closed"
  /\ sock[2].token # sock[1].token
  /\ sock[2].status = "connected"
  /\ reconnectAttempts = 0

\* C30: the lookup index mirrors the message lists.  In every state reached
\* through setMessages, addMessage, updateMessage and removeMessage,
\* messageIds[k] is the sequence of the _id values of messages[k], in the
\* same order, for every conversation key k.
C30_IndexMirrorsLists ==
  /\ DOMAIN chat.messageIds = DOMAIN chat.messages
  /\ \A k \in DOMAIN chat.messages :
       chat.messageIds[k] =
         [n \in 1..Len(chat.messages[k]) |-> chat.messages[k][n]._id]

====
